---- MODULE Spec2Model ----
(***************************************************************************)
(* PromptRefiner.                                                          *)
(*                                                                         *)
(* Part 1: the Refine endpoint, POST /api/refine (route.ts, found in       *)
(*         src/unnamed/part_000 lines 545-662).                            *)
(* Part 2: the client pipeline, the PromptRefiner component                *)
(*         (src/src/app/components/PromptRefiner.test.tsx lines 276-522).  *)
(* Part 3: the key and session manager, the components PromptRefinerApp    *)
(*         (src/src/app/components/PromptRefinerApp.tsx) and ApiKeySetup   *)
(*         (src/unnamed/part_001).                                         *)
(*                                                                         *)
(* JavaScript values are tagged records: the tag t is the value's kind,    *)
(* the other fields its payload.  Numbers are kept in halves (the field    *)
(* twice holds 2 * value) so that a non-integer such as 7.5 is a value of  *)
(* the model.  A string that holds JSON text is Stringify(v): the text     *)
(* JSON.stringify gives for v, which JSON.parse turns back into v.         *)
(***************************************************************************)
EXTENDS Integers, Sequences, FiniteSets, TLC

VARIABLES
    env,          \* process.env.OPENAI_API_KEY
    pc,           \* where the invocation of POST stands
    request,      \* the body of the request being handled
    fetchCalls,   \* the outbound fetch calls of the invocation in progress
    upstream,     \* what the awaited fetch, then response.json(), settled with
    response,     \* the NextResponse the invocation returned
    log,          \* the console.error records of the invocation
    input,        \* PromptRefiner: useState('') input
    shown,        \* PromptRefiner: useState([]) suggestions
    isLoading,    \* PromptRefiner: useState(false) isLoading
    error,        \* PromptRefiner: useState(null) error
    timerId,      \* debounce: whether its timer is pending
    lastArgs,     \* debounce: the argument of the latest call of debouncedRefine
    elapsed,      \* debounce: the milliseconds since that latest call
    calls,        \* the axios.post calls dispatched so far, in order
    settled,      \* for each dispatched call, what its promise settled with
    burst,        \* history: the input changes made since the timer was armed
    appVersion,     \* PromptRefinerApp: which of the file's two versions is built
    sessionStorage, \* the browser's sessionStorage: the values under the app's keys
    appApiKey,      \* PromptRefinerApp: useState(null) apiKey
    selectedModel,  \* PromptRefinerApp: useState('gpt-4o-mini') selectedModel
    appIsLoading,   \* PromptRefinerApp: useState(true) isLoading
    formApiKey,     \* ApiKeySetup: useState('') apiKey
    showKey,        \* ApiKeySetup: useState(false) showKey
    formError,      \* ApiKeySetup: useState('') error
    appEvent,       \* history: the latest event of the app
    clipboard,      \* navigator.clipboard: the text it holds
    consoleErrors,  \* PromptRefiner: the console.error records of copyToClipboard
    writes,         \* PromptRefiner: the texts of the writeText calls awaited
    earlier         \* history: an invocation of POST that is over, when kept

endpointVars == <<env, pc, request, fetchCalls, upstream, response, log>>

clientVars ==
    <<input, shown, isLoading, error, timerId, lastArgs, elapsed, calls, settled, burst>>

appVars ==
    <<appVersion, sessionStorage, appApiKey, selectedModel, appIsLoading, formApiKey,
      showKey, formError, appEvent>>

copyVars == <<clipboard, consoleErrors, writes>>

vars == <<endpointVars, clientVars, appVars, copyVars, earlier>>

----------------------------------------------------------------------------
(* Bounds of the model. *)

MaxPromptLen == 2
MaxEntries == 4
ClarityRange == 5
MaxCalls == 2
MaxBurst == 3

\* The most clipboard writes awaited at one time.
MaxWrites == 2

----------------------------------------------------------------------------
(* JavaScript values. *)

Undefined == [t |-> "undefined"]
Null == [t |-> "null"]
NaN == [t |-> "NaN"]
Num(n) == [t |-> "number", twice |-> 2 * n]
Halves(k) == [t |-> "number", twice |-> k]
Str(s) == [t |-> "string", s |-> s]
Stringify(v) == [t |-> "string", json |-> v]
Arr(items) == [t |-> "array", items |-> items]
EmptyObject == [t |-> "object"]
None == [t |-> "none"]

\* ToBoolean: undefined, null, NaN, 0 and "" are falsy, all else is truthy.
Truthy(v) ==
    CASE v.t \in {"undefined", "null", "NaN"} -> FALSE
      [] v.t = "number" -> v.twice # 0
      [] v.t = "string" -> IF "s" \in DOMAIN v THEN v.s # "" ELSE TRUE
      [] OTHER -> TRUE

\* a || b
Or(a, b) == IF Truthy(a) THEN a ELSE b

\* Reading a property of undefined or null throws a TypeError.
CanRead(v) == v.t \notin {"undefined", "null"}

\* v[p] for a v that can be read: a missing property reads as undefined.
Get(v, p) == IF v.t = "object" /\ p \in DOMAIN v THEN v[p] ELSE Undefined

\* v?.[p]
OptGet(v, p) == IF CanRead(v) THEN Get(v, p) ELSE Undefined

\* a[0] of an array
First(a) == IF a.t = "array" /\ Len(a.items) > 0 THEN a.items[1] ELSE Undefined

Digits == {"0", "1", "2", "3", "4", "5", "6", "7", "8", "9"}

DigitValue(c) ==
    CASE c = "0" -> 0 [] c = "1" -> 1 [] c = "2" -> 2 [] c = "3" -> 3
      [] c = "4" -> 4 [] c = "5" -> 5 [] c = "6" -> 6 [] c = "7" -> 7
      [] c = "8" -> 8 [] c = "9" -> 9

RECURSIVE DecimalValue(_)
DecimalValue(s) ==
    IF s = "" THEN 0
    ELSE 10 * DecimalValue(SubSeq(s, 1, Len(s) - 1))
         + DigitValue(SubSeq(s, Len(s), Len(s)))

\* Number(s) for the empty string, a string of digits, and a string that is
\* no numeric literal.
StringToNumber(s) ==
    IF s = "" THEN Num(0)
    ELSE IF \A i \in 1..Len(s) : SubSeq(s, i, i) \in Digits
         THEN Num(DecimalValue(s))
         ELSE NaN

\* ToNumber, as Math.min and Math.max apply it to their arguments.
ToNumber(v) ==
    CASE v.t = "number" -> v
      [] v.t = "null" -> Num(0)
      [] v.t = "string" /\ "s" \in DOMAIN v -> StringToNumber(v.s)
      [] OTHER -> NaN

MathMin(a, b) ==
    LET x == ToNumber(a)
        y == ToNumber(b)
    IN  IF x.t = "NaN" \/ y.t = "NaN" THEN NaN
        ELSE IF x.twice <= y.twice THEN x ELSE y

MathMax(a, b) ==
    LET x == ToNumber(a)
        y == ToNumber(b)
    IN  IF x.t = "NaN" \/ y.t = "NaN" THEN NaN
        ELSE IF x.twice >= y.twice THEN x ELSE y

Whitespace == {" ", "\t", "\n"}

RECURSIVE TrimStart(_)
TrimStart(s) ==
    IF s # "" /\ Head(s) \in Whitespace THEN TrimStart(Tail(s)) ELSE s

RECURSIVE TrimEnd(_)
TrimEnd(s) ==
    IF s # "" /\ SubSeq(s, Len(s), Len(s)) \in Whitespace
    THEN TrimEnd(SubSeq(s, 1, Len(s) - 1))
    ELSE s

\* String.prototype.trim
Trim(s) == TrimEnd(TrimStart(s))

\* JSON.stringify of a number: NaN is written as null.
JsonNumber(n) == IF n.t = "NaN" THEN Null ELSE n

----------------------------------------------------------------------------
(* The inputs: request bodies, the configured default key, upstream outcomes. *)

PromptAlphabet == {" ", "a"}

RECURSIVE StringsOfLen(_)
StringsOfLen(k) ==
    IF k = 0 THEN {""}
    ELSE {s \o c : s \in StringsOfLen(k - 1), c \in PromptAlphabet}

PromptTexts == UNION {StringsOfLen(k) : k \in 0..MaxPromptLen}

\* What the body's prompt may be: absent, null, a number, any short string.
PromptValues == {Undefined, Null, Num(5)} \cup {Str(s) : s \in PromptTexts}

\* What the body's apiKey may be: absent, null, empty, a key.
ApiKeyValues == {Undefined, Null, Str(""), Str("sk-user")}

\* OPENAI_API_KEY: unset, set to the empty string, set to a key.
EnvValues == {Undefined, Str(""), Str("sk-env")}

Malformed == [t |-> "malformed"]

\* The value request.json() parses: an object with prompt and apiKey, the JSON
\* values null and 5, or a body that is no JSON at all.
RequestBodies ==
    {Malformed, Null, Num(5)}
    \cup {[t |-> "object", prompt |-> p, apiKey |-> k] :
            p \in PromptValues, k \in ApiKeyValues}

\* The integers and the other values an upstream entry's clarity may be.
ClarityValues ==
    {Num(n) : n \in (0 - ClarityRange)..(10 + ClarityRange)}
    \cup {Undefined, Null, Halves(15), Str("abc"), Str("7")}

\* What a text field of an upstream entry may be: missing, null, empty, there.
FieldValues(v) == {Undefined, Null, Str(""), Str(v)}

Entry(id, refined, clarity, explanation) ==
    [t |-> "object", id |-> id, refined |-> refined, clarity |-> clarity,
     explanation |-> explanation]

\* The k-th entry of a well-formed upstream list.
GoodEntry(k) ==
    Entry(Str("s" \o ToString(k)), Str("refined " \o ToString(k)),
          Num(k + 5), Str("because " \o ToString(k)))

\* Entries that vary one aspect: the clarity, or which fields are there; and
\* entries that are no objects.
VariedEntries ==
    {Null, Num(5)}
    \cup {Entry(Str("x"), Str("r"), c, Str("e")) : c \in ClarityValues}
    \cup {Entry(i, r, Num(7), e) :
            i \in FieldValues("x"), r \in FieldValues("r"), e \in FieldValues("e")}

GoodEntries(n) == [k \in 1..n |-> GoodEntry(k)]

\* Upstream lists of 0..MaxEntries entries: well-formed ones, and well-formed
\* ones with one entry replaced by a varied one.
EntryArrays ==
    {GoodEntries(n) : n \in 0..MaxEntries}
    \cup UNION {{[GoodEntries(n) EXCEPT ![i] = e] :
                    i \in 1..n, e \in VariedEntries} : n \in 1..MaxEntries}

\* What the parsed object's suggestions property may be.
SuggestionsValues ==
    {Undefined, Null, Str("abc"), Num(5), EmptyObject}
    \cup {Arr(a) : a \in EntryArrays}

\* What JSON.parse(content) may give.
ParsedValues ==
    {Null, Num(5)}
    \cup {[t |-> "object", suggestions |-> s] : s \in SuggestionsValues}

\* Texts that are no JSON: JSON.parse throws a SyntaxError on each.
NonJsonTexts == {"", "Invalid JSON response", "{\"suggestions\": ["}

\* What choices[0].message.content may be.
ContentValues ==
    {Undefined, Null}
    \cup {Str(s) : s \in NonJsonTexts}
    \cup {Stringify(v) : v \in ParsedValues}

Completion(content) ==
    [t |-> "object",
     choices |-> Arr(<<[t |-> "object",
                        message |-> [t |-> "object", content |-> content]]>>)]

\* The reading of the upstream reply's body fails: response.json() rejects
\* with a TypeError.
BodyFailed == [t |-> "failed"]

\* What the awaited response.json() of the upstream reply may settle with.
DataValues ==
    {BodyFailed, Malformed, Null, EmptyObject, [t |-> "object", choices |-> Arr(<<>>)]}
    \cup {Completion(c) : c \in ContentValues}

ErrorStatuses == {401, 429, 500}

ErrorBodies == {EmptyObject, [t |-> "object", error |-> Str("Incorrect API key")]}

\* How the awaited fetch may settle: rejected (a transport failure), resolved
\* with a non-success status (and a body the handler never reads), resolved
\* with a success status, the body not yet read.
UpstreamOutcomes ==
    {[kind |-> "rejected", ok |-> FALSE, status |-> 0, data |-> None]}
    \cup {[kind |-> "resolved", ok |-> FALSE, status |-> s, data |-> d] :
            s \in ErrorStatuses, d \in ErrorBodies}
    \cup {[kind |-> "resolved", ok |-> TRUE, status |-> 200, data |-> None]}

----------------------------------------------------------------------------
(* The handler POST of route.ts. *)

ErrorResponse(message, status) == [status |-> status, body |-> [error |-> message]]

SuccessResponse(list) == [status |-> 200, body |-> [suggestions |-> list]]

\* What a statement of the try block ends in: an exception, or the response
\* the handler returns.
Thrown(name, message) == [threw |-> TRUE, error |-> [name |-> name, message |-> message]]

Returned(r) == [threw |-> FALSE, response |-> r]

\* Catch with the caught error's message sent back to the client.
CatchEchoesError(result) ==
    IF result.threw
    THEN [response |-> ErrorResponse(result.error.message, 500),
          logged |-> <<[label |-> "Error refining prompt:", error |-> result.error]>>]
    ELSE [response |-> result.response, logged |-> <<>>]

\* The catch block: the error is logged, the reply is the fixed 500.
Catch(result) ==
    IF result.threw
    THEN [response |-> ErrorResponse("Failed to refine prompt", 500),
          logged |-> <<[label |-> "Error refining prompt:", error |-> result.error]>>]
    ELSE [response |-> result.response, logged |-> <<>>]

\* !prompt || typeof prompt !== 'string'
InvalidPrompt(prompt) == ~Truthy(prompt) \/ prompt.t # "string"

\* openaiApiKey with the operands in the other order: the default key first.
openaiApiKeyEnvFirst(apiKey) == Or(env, apiKey)

\* apiKey || process.env.OPENAI_API_KEY
openaiApiKey(apiKey) == Or(apiKey, env)

\* `${v}` of a string, undefined or null
TemplateString(v) ==
    CASE v.t = "string" /\ "s" \in DOMAIN v -> v.s
      [] v.t = "undefined" -> "undefined"
      [] v.t = "null" -> "null"

\* The outbound call to the completion API.
FetchCall(prompt, key) ==
    [url |-> "https://api.openai.com/v1/chat/completions",
     authorization |-> "Bearer " \o TemplateString(key),
     model |-> "gpt-3.5-turbo",
     user |-> "Original prompt: \"" \o TemplateString(prompt) \o "\""]

\* The synthesized reply used when JSON.parse throws.
Fallback(prompt) ==
    [t |-> "object",
     suggestions |-> Arr(<<Entry(
        Str("1"),
        Str("Be more specific about what you want to know: \""
            \o Trim(prompt.s)
            \o "\" - what particular aspect interests you most?"),
        Num(6),
        Str("Adding specificity helps get more targeted and useful responses."))>>)]

\* JSON.parse(content) inside its own try: the parsed value, or the fallback.
parsedResponse(content, prompt) ==
    IF "json" \in DOMAIN content THEN content.json ELSE Fallback(prompt)

DefaultClarity == 5
MinClarity == 1
MaxClarity == 10
MaxSuggestions == 3

\* Clamp with ?? in place of ||: only a missing clarity gets the default.
ClampNullish(clarity) ==
    MathMax(Num(MinClarity),
            MathMin(Num(MaxClarity),
                    IF CanRead(clarity) THEN clarity ELSE Num(DefaultClarity)))

\* Math.max(1, Math.min(10, suggestion.clarity || 5))
Clamp(clarity) ==
    MathMax(Num(MinClarity), MathMin(Num(MaxClarity), Or(clarity, Num(DefaultClarity))))

\* Sanitize with the position itself, counted from 0, as the default id.
SanitizeZeroBasedId(suggestion, index, prompt) ==
    [id |-> Or(Get(suggestion, "id"), Str(ToString(index))),
     refined |-> Or(Get(suggestion, "refined"), prompt),
     clarity |-> Clamp(Get(suggestion, "clarity")),
     explanation |-> Or(Get(suggestion, "explanation"),
                        Str("General improvement suggestion."))]

\* The callback of map: one upstream entry, made a RefinedPrompt.
Sanitize(suggestion, index, prompt) ==
    [id |-> Or(Get(suggestion, "id"), Str(ToString(index + 1))),
     refined |-> Or(Get(suggestion, "refined"), prompt),
     clarity |-> Clamp(Get(suggestion, "clarity")),
     explanation |-> Or(Get(suggestion, "explanation"),
                        Str("General improvement suggestion."))]

\* .slice(0, 3) of an array
Slice(items) ==
    SubSeq(items, 1, IF Len(items) < MaxSuggestions THEN Len(items) ELSE MaxSuggestions)

\* NextResponse.json writes the list as JSON.
Serialize(list) ==
    [i \in 1..Len(list) |-> [list[i] EXCEPT !.clarity = JsonNumber(@)]]

\* (parsedResponse.suggestions || []).slice(0, 3).map(...), and the return.
suggestions(parsed, prompt) ==
    IF ~CanRead(parsed)
    THEN Thrown("TypeError", "Cannot read properties of null")
    ELSE LET raw == Or(Get(parsed, "suggestions"), Arr(<<>>))
         IN  IF raw.t # "array"
             THEN Thrown("TypeError", "slice(...).map is not a function")
             ELSE LET kept == Slice(raw.items)
                  IN  IF \E i \in 1..Len(kept) : ~CanRead(kept[i])
                      THEN Thrown("TypeError", "Cannot read properties of null")
                      ELSE Returned(SuccessResponse(Serialize(
                              [i \in 1..Len(kept) |-> Sanitize(kept[i], i - 1, prompt)])))

\* AfterFetch where the error thrown for a non-success status names the
\* authorization that was sent.
AfterFetchLeaksKey(outcome) ==
    IF outcome.kind = "rejected"
    THEN Thrown("TypeError", "fetch failed")
    ELSE IF ~outcome.ok
    THEN Thrown("Error", "OpenAI API error: " \o ToString(outcome.status)
                            \o " for " \o fetchCalls[1].authorization)
    ELSE None

\* The try block from the settling of fetch to the await of response.json():
\* an exception, or nothing yet.
AfterFetch(outcome) ==
    IF outcome.kind = "rejected"
    THEN Thrown("TypeError", "fetch failed")
    ELSE IF ~outcome.ok
    THEN Thrown("Error", "OpenAI API error: " \o ToString(outcome.status))
    ELSE None

\* The try block from the settling of response.json() to the return.
AfterJson(prompt, data) ==
    IF data.t = "failed"
    THEN Thrown("TypeError", "terminated")
    ELSE IF data.t = "malformed"
    THEN Thrown("SyntaxError", "Unexpected token")
    ELSE IF ~CanRead(data) \/ ~CanRead(Get(data, "choices"))
    THEN Thrown("TypeError", "Cannot read properties of undefined")
    ELSE LET content == OptGet(OptGet(First(Get(data, "choices")),
                                      "message"), "content")
         IN  IF ~Truthy(content)
             THEN Thrown("Error", "No content received from OpenAI")
             ELSE suggestions(parsedResponse(content, prompt), prompt)

\* BeforeFetch without the check of the resolved key: fetch is called with
\* whatever the resolution gave.
BeforeFetchNoKeyCheck(body) ==
    IF body.t = "malformed"
    THEN [call |-> None, result |-> Thrown("SyntaxError", "Unexpected token")]
    ELSE IF ~CanRead(body)
    THEN [call |-> None, result |-> Thrown("TypeError", "Cannot destructure property")]
    ELSE LET prompt == Get(body, "prompt")
             apiKey == Get(body, "apiKey")
         IN  IF InvalidPrompt(prompt)
             THEN [call |-> None,
                   result |-> Returned(ErrorResponse("Invalid prompt provided", 400))]
             ELSE [call |-> FetchCall(prompt, openaiApiKey(apiKey)), result |-> None]

\* The try block up to the await of fetch: a response, or the call to await.
BeforeFetch(body) ==
    IF body.t = "malformed"
    THEN [call |-> None, result |-> Thrown("SyntaxError", "Unexpected token")]
    ELSE IF ~CanRead(body)
    THEN [call |-> None, result |-> Thrown("TypeError", "Cannot destructure property")]
    ELSE LET prompt == Get(body, "prompt")
             apiKey == Get(body, "apiKey")
         IN  IF InvalidPrompt(prompt)
             THEN [call |-> None,
                   result |-> Returned(ErrorResponse("Invalid prompt provided", 400))]
             ELSE IF ~Truthy(openaiApiKey(apiKey))
             THEN [call |-> None,
                   result |-> Returned(ErrorResponse("OpenAI API key not provided", 400))]
             ELSE [call |-> FetchCall(prompt, openaiApiKey(apiKey)), result |-> None]

\* A request arrives: the handler runs until it returns or awaits fetch.
POST(body) ==
    /\ pc = "idle"
    /\ request' = body
    /\ upstream' = None
    /\ LET step == BeforeFetch(body)
       IN  IF step.result = None
           THEN /\ pc' = "awaitFetch"
                /\ fetchCalls' = <<step.call>>
                /\ response' = None
                /\ log' = <<>>
           ELSE /\ pc' = "responded"
                /\ fetchCalls' = <<>>
                /\ response' = Catch(step.result).response
                /\ log' = Catch(step.result).logged
    /\ UNCHANGED <<env, clientVars, appVars, copyVars, earlier>>

\* The awaited fetch settles: the handler runs until it returns or awaits
\* response.json().
FetchSettles(outcome) ==
    /\ pc = "awaitFetch"
    /\ upstream' = outcome
    /\ LET result == AfterFetch(outcome)
       IN  IF result = None
           THEN /\ pc' = "awaitJson"
                /\ UNCHANGED <<response, log>>
           ELSE /\ pc' = "responded"
                /\ response' = Catch(result).response
                /\ log' = Catch(result).logged
    /\ UNCHANGED <<env, request, fetchCalls, clientVars, appVars, copyVars, earlier>>

\* The awaited response.json() settles: the handler runs to its return.
JsonSettles(data) ==
    /\ pc = "awaitJson"
    /\ upstream' = [upstream EXCEPT !.data = data]
    /\ LET done == Catch(AfterJson(Get(request, "prompt"), data))
       IN  /\ response' = done.response
           /\ log' = done.logged
    /\ pc' = "responded"
    /\ UNCHANGED <<env, request, fetchCalls, clientVars, appVars, copyVars, earlier>>

\* The history of invocations: not kept at all, or one invocation that is over.
Untracked == [t |-> "untracked"]

Invocation(req, outcome, res, logged) ==
    [t |-> "invocation", request |-> req, upstream |-> outcome, response |-> res,
     log |-> logged]

\* What the history may hold once the invocation in progress is over.
Remembered ==
    IF earlier = Untracked
    THEN {Untracked}
    ELSE {earlier, Invocation(request, upstream, response, log)}

\* Complete where the handler keeps the key of the request as the default key
\* of the process.
CompleteKeepsKey ==
    /\ pc = "responded"
    /\ pc' = "idle"
    /\ env' = IF CanRead(request) /\ Truthy(Get(request, "apiKey"))
              THEN Get(request, "apiKey")
              ELSE env
    /\ request' = None
    /\ fetchCalls' = <<>>
    /\ upstream' = None
    /\ response' = None
    /\ log' = <<>>
    /\ earlier' \in Remembered
    /\ UNCHANGED <<clientVars, appVars, copyVars>>

\* The response is sent and the invocation is over: the handler keeps nothing
\* of it.
Complete ==
    /\ pc = "responded"
    /\ pc' = "idle"
    /\ request' = None
    /\ fetchCalls' = <<>>
    /\ upstream' = None
    /\ response' = None
    /\ log' = <<>>
    /\ earlier' \in Remembered
    /\ UNCHANGED <<env, clientVars, appVars, copyVars>>

\* No invocation is in progress.
EndpointIdle ==
    /\ pc = "idle"
    /\ request = None
    /\ fetchCalls = <<>>
    /\ upstream = None
    /\ response = None
    /\ log = <<>>

----------------------------------------------------------------------------
(* The component PromptRefiner of PromptRefiner.tsx. *)

DebounceDelay == 500

\* The step by which the model's clock advances.
TickMs == DebounceDelay \div 2

\* What the user may make of the textarea.
InputTexts == {"", " ", "x", "y"}

\* The apiKey prop of the component.
apiKeyProp == "sk-user"

Fulfilled(list) == [kind |-> "fulfilled", list |-> list]

Rejected(isAxiosError, payload, message) ==
    [kind |-> "rejected", isAxiosError |-> isAxiosError, payload |-> payload,
     message |-> message]

\* How the promise of an axios.post for a prompt may settle: a reply with no
\* or one suggestion, an axios error with or without an error payload and with
\* or without a message, an error that is no axios error.
CallOutcomes(prompt) ==
    {Fulfilled(<<>>),
     Fulfilled(<<[id |-> "1", refined |-> "refined " \o prompt, clarity |-> 8,
                  explanation |-> "e"]>>),
     Rejected(TRUE, Str("OpenAI API key not configured"),
              Str("Request failed with status code 500")),
     Rejected(TRUE, Undefined, Str("Network Error")),
     Rejected(TRUE, Undefined, Str("")),
     Rejected(FALSE, Undefined, Str("Network error"))}

\* The state after mounting: the effect has called debouncedRefine('').
ClientMounted ==
    /\ input = ""
    /\ shown = <<>>
    /\ isLoading = FALSE
    /\ error = Null
    /\ timerId = TRUE
    /\ lastArgs = ""
    /\ elapsed = 0
    /\ calls = <<>>
    /\ settled = <<>>
    /\ burst = 0

\* TimerDue with no wait: the pending timer is due at once.
TimerDueAtOnce == timerId

\* debounce(refinePrompt, 500): whether the pending timer is due.
TimerDue == timerId /\ elapsed >= DebounceDelay

\* onChange, setInput and the effect on [input]: debouncedRefine(input).
ChangeInput(text) ==
    /\ text # input
    /\ timerId => burst < MaxBurst
    /\ burst' = IF timerId THEN burst + 1 ELSE 1
    /\ input' = text
    /\ lastArgs' = text
    /\ timerId' = TRUE
    /\ elapsed' = 0
    /\ UNCHANGED <<shown, isLoading, error, calls, settled, endpointVars, appVars, copyVars, earlier>>

\* Time passes while the timer is pending and not yet due.
Tick ==
    /\ timerId
    /\ ~TimerDue
    /\ elapsed' = elapsed + TickMs
    /\ UNCHANGED <<input, shown, isLoading, error, timerId, lastArgs, calls, settled,
                   burst, endpointVars, appVars, copyVars, earlier>>

\* TimerFires without setError(null): a dispatch leaves the error shown.
TimerFiresKeepsError ==
    /\ TimerDue
    /\ timerId' = FALSE
    /\ IF Trim(lastArgs) = ""
       THEN /\ shown' = <<>>
            /\ UNCHANGED <<isLoading, calls, settled>>
       ELSE /\ Len(calls) < MaxCalls
            /\ isLoading' = TRUE
            /\ calls' = Append(calls, [url |-> "/api/refine", prompt |-> lastArgs,
                                       apiKey |-> apiKeyProp])
            /\ settled' = Append(settled, None)
            /\ UNCHANGED shown
    /\ UNCHANGED <<error, input, lastArgs, elapsed, burst, endpointVars, appVars, copyVars, earlier>>

\* TimerFires without the check for a blank prompt: every expiry dispatches.
TimerFiresNoBlankCheck ==
    /\ TimerDue
    /\ timerId' = FALSE
    /\ Len(calls) < MaxCalls
    /\ isLoading' = TRUE
    /\ error' = Null
    /\ calls' = Append(calls, [url |-> "/api/refine", prompt |-> lastArgs,
                               apiKey |-> apiKeyProp])
    /\ settled' = Append(settled, None)
    /\ UNCHANGED <<shown, input, lastArgs, elapsed, burst, endpointVars, appVars, copyVars, earlier>>

\* The debounce timer expires: refinePrompt(lastArgs) runs up to its await.
TimerFires ==
    /\ TimerDue
    /\ timerId' = FALSE
    /\ IF Trim(lastArgs) = ""
       THEN /\ shown' = <<>>
            /\ UNCHANGED <<isLoading, error, calls, settled>>
       ELSE /\ Len(calls) < MaxCalls
            /\ isLoading' = TRUE
            /\ error' = Null
            /\ calls' = Append(calls, [url |-> "/api/refine", prompt |-> lastArgs,
                                       apiKey |-> apiKeyProp])
            /\ settled' = Append(settled, None)
            /\ UNCHANGED shown
    /\ UNCHANGED <<input, lastArgs, elapsed, burst, endpointVars, appVars, copyVars, earlier>>

\* ErrorMessage without the fallback to the error's own message.
ErrorMessageNoOwnMessage(err) ==
    IF err.isAxiosError
    THEN Or(err.payload, Str("Failed to refine prompt"))
    ELSE Str("An unexpected error occurred")

\* The catch block of refinePrompt: the message shown for a failed call.
ErrorMessage(err) ==
    IF err.isAxiosError
    THEN Or(err.payload, Or(err.message, Str("Failed to refine prompt")))
    ELSE Str("An unexpected error occurred")

\* The promise of call i settles: refinePrompt runs from its await to its end.
CallSettles(i, outcome) ==
    /\ settled[i] = None
    /\ settled' = [settled EXCEPT ![i] = outcome]
    /\ IF outcome.kind = "fulfilled"
       THEN /\ shown' = outcome.list
            /\ UNCHANGED error
       ELSE /\ error' = ErrorMessage(outcome)
            /\ shown' = <<>>
    /\ isLoading' = FALSE
    /\ UNCHANGED <<input, timerId, lastArgs, elapsed, calls, burst, endpointVars, appVars, copyVars, earlier>>

\* Nothing has been copied and no copy has failed.
CopyIdle ==
    /\ clipboard = ""
    /\ consoleErrors = {}
    /\ writes = <<>>

\* The refined texts of the suggestions shown, each with its Copy button.
CopyableTexts == {shown[i].refined : i \in 1..Len(shown)}

\* copyToClipboard of a suggestion's refined text, up to the await: writeText
\* is called and its promise awaited.
copyToClipboard(text) ==
    /\ text \in CopyableTexts
    /\ Len(writes) < MaxWrites
    /\ writes' = Append(writes, text)
    /\ UNCHANGED <<clipboard, consoleErrors, clientVars, endpointVars, appVars, earlier>>

\* WriteSettles with the failure shown to the user as the error.
WriteSettlesShowsError(i, written) ==
    /\ i \in 1..Len(writes)
    /\ IF written
       THEN /\ clipboard' = writes[i]
            /\ UNCHANGED <<consoleErrors, error>>
       ELSE /\ consoleErrors' = consoleErrors \cup {"Failed to copy to clipboard:"}
            /\ error' = Str("Failed to copy to clipboard")
            /\ UNCHANGED clipboard
    /\ writes' = SubSeq(writes, 1, i - 1) \o SubSeq(writes, i + 1, Len(writes))
    /\ UNCHANGED <<input, shown, isLoading, timerId, lastArgs, elapsed, calls, settled,
                   burst, endpointVars, appVars, earlier>>

\* An awaited writeText settles and copyToClipboard runs to its end: the
\* clipboard takes the text, or the promise rejects and the catch logs the
\* failure.
WriteSettles(i, written) ==
    /\ i \in 1..Len(writes)
    /\ IF written
       THEN /\ clipboard' = writes[i]
            /\ UNCHANGED consoleErrors
       ELSE /\ consoleErrors' = consoleErrors \cup {"Failed to copy to clipboard:"}
            /\ UNCHANGED clipboard
    /\ writes' = SubSeq(writes, 1, i - 1) \o SubSeq(writes, i + 1, Len(writes))
    /\ UNCHANGED <<clientVars, endpointVars, appVars, earlier>>

----------------------------------------------------------------------------
(* The components PromptRefinerApp of PromptRefinerApp.tsx, whose file holds  *)
(* two versions (with and without a model selection), and ApiKeySetup.       *)

\* The keys under which the app uses sessionStorage.
ApiKeyItem == "openai-api-key"

ModelItem == "openai-model"

StorageKeys == {ApiKeyItem, ModelItem}

\* useState('gpt-4o-mini')
DefaultModel == Str("gpt-4o-mini")

\* The versions of PromptRefinerApp: 1 keeps a model selection, 2 does not.
AppVersions == {1, 2}

\* What the user may make of the key field of the setup form.
FormTexts == {"", " ", "abc", "sk", " sk-a", "sk-", "sk-a", "sk-a ", "sk-b"}

\* What the caller of version 1's handleApiKeySet may pass as the model: the
\* ApiKeySetup of this repository passes none.
ModelValues == {Undefined, Str("gpt-4o-mini"), Str("gpt-4o"), Str("gpt-5")}

\* sessionStorage.setItem stores the string of the value it is given.
DOMString(v) ==
    CASE v.t = "string" -> v
      [] v.t = "undefined" -> Str("undefined")
      [] v.t = "null" -> Str("null")

getItem(key) == sessionStorage[key]

setItem(storage, key, value) == [storage EXCEPT ![key] = DOMString(value)]

removeItem(storage, key) == [storage EXCEPT ![key] = Null]

\* apiKey.startsWith('sk-')
StartsWith(s, prefix) ==
    Len(s) >= Len(prefix) /\ SubSeq(s, 1, Len(prefix)) = prefix

\* Which of the three returns of PromptRefinerApp renders.
View ==
    IF appIsLoading THEN "loading"
    ELSE IF ~Truthy(appApiKey) THEN "ApiKeySetup"
    ELSE "PromptRefiner"

\* The in-memory state of a fresh page: nothing rendered but the spinner.
AppFresh ==
    /\ appApiKey = Null
    /\ selectedModel = IF appVersion = 1 THEN DefaultModel ELSE None
    /\ appIsLoading = TRUE
    /\ formApiKey = ""
    /\ showKey = FALSE
    /\ formError = ""

\* The validation messages of the setup form.
EmptyKeyMessage == "Please enter your OpenAI API key"

PrefixMessage == "OpenAI API keys start with \"sk-\""

\* AppEffect without the inspection: the app starts with no key.
AppEffectNoInspection ==
    /\ appIsLoading
    /\ appIsLoading' = FALSE
    /\ appEvent' = "effect"
    /\ UNCHANGED <<appVersion, sessionStorage, appApiKey, selectedModel, formApiKey,
                   showKey, formError, endpointVars, clientVars, copyVars, earlier>>

\* The effect of PromptRefinerApp on mount: the inspection of sessionStorage.
AppEffect ==
    /\ appIsLoading
    /\ appApiKey' = IF Truthy(getItem(ApiKeyItem)) THEN getItem(ApiKeyItem) ELSE appApiKey
    /\ selectedModel' = IF appVersion = 1 /\ Truthy(getItem(ModelItem))
                        THEN getItem(ModelItem)
                        ELSE selectedModel
    /\ appIsLoading' = FALSE
    /\ appEvent' = "effect"
    /\ UNCHANGED <<appVersion, sessionStorage, formApiKey, showKey, formError,
                   endpointVars, clientVars, copyVars, earlier>>

\* onChange of the key field: setApiKey(e.target.value)
TypeApiKey(text) ==
    /\ View = "ApiKeySetup"
    /\ text # formApiKey
    /\ formApiKey' = text
    /\ appEvent' = "type"
    /\ UNCHANGED <<appVersion, sessionStorage, appApiKey, selectedModel, appIsLoading,
                   showKey, formError, endpointVars, clientVars, copyVars, earlier>>

\* The eye button of the key field: setShowKey(!showKey)
ToggleShowKey ==
    /\ View = "ApiKeySetup"
    /\ showKey' = ~showKey
    /\ appEvent' = "toggle"
    /\ UNCHANGED <<appVersion, sessionStorage, appApiKey, selectedModel, appIsLoading,
                   formApiKey, formError, endpointVars, clientVars, copyVars, earlier>>


\* handleApiKeySet that keeps the key in memory only.
handleApiKeySetMemoryOnly(key, model) ==
    /\ UNCHANGED sessionStorage
    /\ appApiKey' = key
    /\ selectedModel' = IF appVersion = 1 THEN model ELSE selectedModel

\* handleApiKeySet of PromptRefinerApp: version 1 (key, model), version 2 (key).
handleApiKeySet(key, model) ==
    /\ sessionStorage' =
          IF appVersion = 1
          THEN setItem(setItem(sessionStorage, ApiKeyItem, key), ModelItem, model)
          ELSE setItem(sessionStorage, ApiKeyItem, key)
    /\ appApiKey' = key
    /\ selectedModel' = IF appVersion = 1 THEN model ELSE selectedModel

\* handleSubmit without the check of the prefix.
handleSubmitNoPrefixCheck(model) ==
    /\ View = "ApiKeySetup"
    /\ appEvent' = "submit"
    /\ IF Trim(formApiKey) = ""
       THEN /\ formError' = EmptyKeyMessage
            /\ UNCHANGED <<sessionStorage, appApiKey, selectedModel, formApiKey, showKey>>
       ELSE /\ handleApiKeySet(Str(Trim(formApiKey)), model)
            /\ formError' = ""
            /\ formApiKey' = ""
            /\ showKey' = FALSE
    /\ UNCHANGED <<appVersion, appIsLoading, endpointVars, clientVars, copyVars, earlier>>

\* handleSubmit of ApiKeySetup; a key that is set unmounts the form, whose
\* state is gone with it.
handleSubmit(model) ==
    /\ View = "ApiKeySetup"
    /\ appEvent' = "submit"
    /\ IF Trim(formApiKey) = ""
       THEN /\ formError' = EmptyKeyMessage
            /\ UNCHANGED <<sessionStorage, appApiKey, selectedModel, formApiKey, showKey>>
       ELSE IF ~StartsWith(formApiKey, "sk-")
       THEN /\ formError' = PrefixMessage
            /\ UNCHANGED <<sessionStorage, appApiKey, selectedModel, formApiKey, showKey>>
       ELSE /\ handleApiKeySet(Str(Trim(formApiKey)), model)
            /\ formError' = ""
            /\ formApiKey' = ""
            /\ showKey' = FALSE
    /\ UNCHANGED <<appVersion, appIsLoading, endpointVars, clientVars, copyVars, earlier>>

\* handleApiKeyReset that forgets the model: only the key is removed.
handleApiKeyResetKeepsModel ==
    /\ View = "PromptRefiner"
    /\ appEvent' = "reset"
    /\ sessionStorage' = removeItem(sessionStorage, ApiKeyItem)
    /\ appApiKey' = Null
    /\ UNCHANGED <<appVersion, selectedModel, appIsLoading, formApiKey, showKey,
                   formError, endpointVars, clientVars, copyVars, earlier>>

\* handleApiKeyReset of PromptRefinerApp, the onApiKeyReset of the refiner.
handleApiKeyReset ==
    /\ View = "PromptRefiner"
    /\ appEvent' = "reset"
    /\ sessionStorage' =
          IF appVersion = 1
          THEN removeItem(removeItem(sessionStorage, ApiKeyItem), ModelItem)
          ELSE removeItem(sessionStorage, ApiKeyItem)
    /\ appApiKey' = Null
    /\ selectedModel' = IF appVersion = 1 THEN DefaultModel ELSE selectedModel
    /\ UNCHANGED <<appVersion, appIsLoading, formApiKey, showKey, formError,
                   endpointVars, clientVars, copyVars, earlier>>

\* The page is loaded again in the same browser session: the in-memory state
\* is fresh, sessionStorage is what it was.
Reload ==
    /\ ~appIsLoading
    /\ appEvent' = "reload"
    /\ appApiKey' = Null
    /\ selectedModel' = IF appVersion = 1 THEN DefaultModel ELSE None
    /\ appIsLoading' = TRUE
    /\ formApiKey' = ""
    /\ showKey' = FALSE
    /\ formError' = ""
    /\ UNCHANGED <<appVersion, sessionStorage, endpointVars, clientVars, copyVars, earlier>>

\* The app before its first effect, in a session that has stored nothing.
AppStarted ==
    /\ appVersion \in AppVersions
    /\ sessionStorage = [key \in StorageKeys |-> Null]
    /\ AppFresh
    /\ appEvent = "start"

----------------------------------------------------------------------------
(* The specifications. *)

\* The endpoint, under any configured default key and any sequence of requests.
Init ==
    /\ env \in EnvValues
    /\ EndpointIdle
    /\ ClientMounted
    /\ appVersion = 2
    /\ AppStarted
    /\ CopyIdle
    /\ earlier = Untracked

Next ==
    \/ \E body \in RequestBodies : POST(body)
    \/ \E outcome \in UpstreamOutcomes : FetchSettles(outcome)
    \/ \E data \in DataValues : JsonSettles(data)
    \/ Complete

Spec == Init /\ [][Next]_vars

\* The component, under any sequence of edits, timer expiries and replies.
ClientInit ==
    /\ env = Undefined
    /\ EndpointIdle
    /\ ClientMounted
    /\ appVersion = 2
    /\ AppStarted
    /\ CopyIdle
    /\ earlier = Untracked

ClientNext ==
    \/ \E text \in InputTexts : ChangeInput(text)
    \/ Tick
    \/ TimerFires
    \/ \E i \in 1..Len(calls) :
          \E outcome \in CallOutcomes(calls[i].prompt) : CallSettles(i, outcome)

ClientSpec == ClientInit /\ [][ClientNext]_vars

\* The component where time passes and a due timer fires: the browser's timers.
ClientLiveSpec == ClientSpec /\ WF_vars(Tick) /\ WF_vars(TimerFires)

\* The app and its setup form, in either version, under any sequence of edits,
\* submits, resets and reloads within one browser session.
AppInit ==
    /\ env = Undefined
    /\ EndpointIdle
    /\ ClientMounted
    /\ AppStarted
    /\ CopyIdle
    /\ earlier = Untracked

AppNext ==
    \/ AppEffect
    \/ \E text \in FormTexts : TypeApiKey(text)
    \/ ToggleShowKey
    \/ \E model \in (IF appVersion = 1 THEN ModelValues ELSE {Undefined}) :
          handleSubmit(model)
    \/ handleApiKeyReset
    \/ Reload

AppSpec == AppInit /\ [][AppNext]_vars

\* The component with its Copy buttons, the prompt being typed and cleared.
CopyTexts == {"", "x"}

CopyNext ==
    \/ \E text \in CopyTexts : ChangeInput(text)
    \/ Tick
    \/ TimerFires
    \/ \E i \in 1..Len(calls) :
          \E outcome \in CallOutcomes(calls[i].prompt) : CallSettles(i, outcome)
    \/ \E text \in CopyableTexts : copyToClipboard(text)
    \/ \E i \in 1..Len(writes) : \E written \in BOOLEAN : WriteSettles(i, written)

CopySpec == ClientInit /\ [][CopyNext]_vars

\* Two invocations of the endpoint one after the other, the earlier one kept
\* for the comparison with the later one.
PairPrompts == {Str(""), Str("a")}

PairApiKeys == {Undefined, Str("sk-user"), Str("sk-other")}

PairBodies ==
    {[t |-> "object", prompt |-> p, apiKey |-> k] : p \in PairPrompts, k \in PairApiKeys}

PairOutcomes ==
    {[kind |-> "rejected", ok |-> FALSE, status |-> 0, data |-> None],
     [kind |-> "resolved", ok |-> FALSE, status |-> 401,
      data |-> [t |-> "object", error |-> Str("Incorrect API key")]],
     [kind |-> "resolved", ok |-> TRUE, status |-> 200, data |-> None]}

PairData ==
    {BodyFailed,
     Completion(Str("Invalid JSON response")),
     Completion(Stringify(Null)),
     Completion(Stringify([t |-> "object", suggestions |-> Arr(GoodEntries(1))]))}

PairInit ==
    /\ env \in EnvValues
    /\ EndpointIdle
    /\ ClientMounted
    /\ appVersion = 2
    /\ AppStarted
    /\ CopyIdle
    /\ earlier = None

PairNext ==
    \/ \E body \in PairBodies : POST(body)
    \/ \E outcome \in PairOutcomes : FetchSettles(outcome)
    \/ \E data \in PairData : JsonSettles(data)
    \/ Complete

PairSpec == PairInit /\ [][PairNext]_vars

----------------------------------------------------------------------------
(* What the claims speak of, read off the state without the handler's own  *)
(* operators.                                                              *)

\* The prompt a request carries: absent when the body is no object with one.
PromptOf(body) ==
    IF body.t = "object" /\ "prompt" \in DOMAIN body THEN body.prompt ELSE Undefined

\* The credential a request carries.
CredentialOf(body) ==
    IF body.t = "object" /\ "apiKey" \in DOMAIN body THEN body.apiKey ELSE Undefined

\* The prompt is absent, null, no string, or the empty string.
NoUsablePrompt(body) ==
    \/ PromptOf(body).t \in {"undefined", "null"}
    \/ PromptOf(body).t # "string"
    \/ PromptOf(body) = Str("")

\* A credential is there and not empty.
IsCredential(v) == v.t = "string" /\ v # Str("")

Responded == pc = "responded"

\* The upstream call succeeded, and this is its reply's message content.
UpstreamContent ==
    IF /\ upstream # None
       /\ upstream.kind = "resolved"
       /\ upstream.ok
       /\ upstream.data.t = "object"
       /\ "choices" \in DOMAIN upstream.data
       /\ Len(upstream.data.choices.items) > 0
    THEN upstream.data.choices.items[1].message.content
    ELSE None

\* The content is a string that is no JSON text.
ContentUnparseable ==
    /\ UpstreamContent.t = "string"
    /\ "s" \in DOMAIN UpstreamContent

\* The content is JSON text of an object whose suggestions is an array.
ContentHasArray ==
    /\ UpstreamContent.t = "string"
    /\ "json" \in DOMAIN UpstreamContent
    /\ UpstreamContent.json.t = "object"
    /\ "suggestions" \in DOMAIN UpstreamContent.json
    /\ UpstreamContent.json.suggestions.t = "array"

UpstreamArray == UpstreamContent.json.suggestions.items

Returned200 == Responded /\ response.status = 200

ReturnedList == response.body.suggestions

Smaller(a, b) == IF a < b THEN a ELSE b

\* part occurs in text
Contains(text, part) ==
    \E i \in 1..(Len(text) - Len(part) + 1) : SubSeq(text, i, i + Len(part) - 1) = part

\* The value is an integer between 1 and 10.
IntegerInRange(v) ==
    /\ v.t = "number"
    /\ v.twice % 2 = 0
    /\ 2 <= v.twice /\ v.twice <= 20

\* The clamping law on an upstream integer clarity, absent included.
ClampLaw(c) ==
    CASE c.t = "undefined" -> Num(5)
      [] c = Num(0) -> Num(5)
      [] c.twice > 20 -> Num(10)
      [] c.twice < 0 -> Num(1)
      [] OTHER -> c

IsIntegerOrAbsent(c) == c.t = "undefined" \/ (c.t = "number" /\ c.twice % 2 = 0)

----------------------------------------------------------------------------
(* The claims. *)

\* C1, as stated: every request whose prompt is absent, null, not a string or
\* the empty string is answered with 400 and "Invalid prompt provided",
\* whatever credential it carries and whatever default key is configured.
C1_AsStated ==
    (Responded /\ NoUsablePrompt(request))
        => response = ErrorResponse("Invalid prompt provided", 400)

\* C2, as stated: a request with a valid prompt, with no credential of its own
\* and no configured default key, is answered with 500 and
\* "OpenAI API key not configured".
C2_AsStated ==
    (Responded /\ ~NoUsablePrompt(request)
        /\ ~IsCredential(CredentialOf(request)) /\ ~IsCredential(env))
        => response = ErrorResponse("OpenAI API key not configured", 500)

\* C3: the outbound call's bearer authorization is the request's credential
\* whenever the request carries a non-empty one, also when a default key is
\* configured; it is the default key only when the request carries none.
C3_CredentialPrecedence ==
    fetchCalls # <<>> =>
        /\ Len(fetchCalls) = 1
        /\ IsCredential(CredentialOf(request))
            => fetchCalls[1].authorization = "Bearer " \o CredentialOf(request).s
        /\ ~IsCredential(CredentialOf(request))
            => /\ IsCredential(env)
               /\ fetchCalls[1].authorization = "Bearer " \o env.s

C3_Witness ==
    /\ fetchCalls # <<>>
    /\ CredentialOf(request) = Str("sk-user")
    /\ env = Str("sk-env")
    /\ fetchCalls[1].authorization = "Bearer sk-user"

\* C4, as stated: when the upstream call succeeds and the content is no JSON
\* (the empty string included), the answer is 200 with exactly one suggestion
\* whose refined text contains the original prompt text.
C4_AsStated ==
    (Responded /\ ContentUnparseable)
        => /\ response.status = 200
           /\ Len(ReturnedList) = 1
           /\ Contains(ReturnedList[1].refined.s, PromptOf(request).s)

\* C5, as stated: for content that is JSON with a suggestions array of length
\* n the answer lists exactly min(n, 3) suggestions, the i-th from the i-th
\* upstream entry.
C5_AsStated ==
    (Responded /\ ContentHasArray)
        => /\ response.status = 200
           /\ Len(ReturnedList) = Smaller(Len(UpstreamArray), 3)
           /\ \A i \in 1..Len(ReturnedList) :
                (UpstreamArray[i].t = "object" /\ Truthy(UpstreamArray[i].id))
                    => ReturnedList[i].id = UpstreamArray[i].id

\* C6, as stated: every suggestion of every 200 response has a clarity that is
\* an integer between 1 and 10.
C6_AsStated ==
    Returned200 =>
        \A i \in 1..Len(ReturnedList) : IntegerInRange(ReturnedList[i].clarity)

\* C7: for an upstream integer clarity c the returned clarity is 5 when c is 0
\* or absent, 10 when c > 10, 1 when c < 0, and c when 1 <= c <= 10.
C7_ClampingLaw ==
    (Returned200 /\ ContentHasArray) =>
        \A i \in 1..Len(ReturnedList) :
            IsIntegerOrAbsent(Get(UpstreamArray[i], "clarity"))
                => ReturnedList[i].clarity = ClampLaw(Get(UpstreamArray[i], "clarity"))

C7_Witness ==
    /\ Returned200
    /\ ContentHasArray
    /\ Len(ReturnedList) = 3
    /\ Get(UpstreamArray[3], "clarity") = Num(0)
    /\ ReturnedList[3].clarity = Num(5)

\* C10: when the upstream call fails in transport or returns a non-success
\* status, the answer is 500 with "Failed to refine prompt", the same for
\* every upstream status and body.
C10_UpstreamFailureIsGeneric ==
    (Responded /\ upstream # None /\ (upstream.kind = "rejected" \/ ~upstream.ok))
        => response = ErrorResponse("Failed to refine prompt", 500)

C10_Witness ==
    /\ Responded
    /\ upstream # None
    /\ upstream.kind = "resolved"
    /\ upstream.status = 401
    /\ upstream.data # EmptyObject
    /\ response.status = 500

\* The result the component shows for a settled call.
ShownFor(outcome) ==
    IF outcome.kind = "fulfilled" THEN outcome.list ELSE <<>>

\* C8, as stated: once every dispatched call has settled, the suggestions and
\* the error shown are those of the call dispatched last, in whatever order
\* the calls settled.
C8_AsStated ==
    (/\ Len(calls) >= 2
     /\ \A i \in 1..Len(calls) : settled[i] # None
     /\ ~timerId
     /\ input = calls[Len(calls)].prompt)
        => /\ shown = ShownFor(settled[Len(calls)])
           /\ (error # Null) = (settled[Len(calls)].kind = "rejected")

\* C9: a burst of changes leads to exactly one call: calls are dispatched only
\* by the expiry of the timer, DebounceDelay ms or more after the last change,
\* one at a time, with the text of the last change; and once the timer has
\* expired on a text that is not blank, the latest call carries that text.
C9_TrailingEdgeDebounce ==
    /\ [][calls' # calls =>
            /\ timerId /\ ~timerId'
            /\ elapsed >= DebounceDelay
            /\ input' = input
            /\ Len(calls') = Len(calls) + 1
            /\ SubSeq(calls', 1, Len(calls)) = calls
            /\ calls'[Len(calls')].prompt = input]_vars
    /\ []((~timerId /\ Trim(input) # "")
            => (Len(calls) >= 1 /\ calls[Len(calls)].prompt = input))

C9_Witness ==
    /\ ~timerId
    /\ burst >= 3
    /\ Len(calls) = 1
    /\ calls[1].prompt = input
    /\ input = "y"


----------------------------------------------------------------------------
(* More claims about the endpoint. *)

\* C17, as stated: when the upstream call succeeds and its content is JSON
\* text of whatever value and shape, the answer has status 200.
C17_AsStated ==
    (Responded /\ UpstreamContent.t = "string" /\ "json" \in DOMAIN UpstreamContent)
        => response.status = 200

\* C18: an invocation makes at most one call to the completion API; once it
\* has answered it has made exactly one if the request has a usable prompt
\* and a credential is found in the request or the configuration, whatever
\* the call ended with, and none otherwise.
C18_OneUpstreamCall ==
    /\ Len(fetchCalls) <= 1
    /\ pc \in {"awaitFetch", "awaitJson"} => Len(fetchCalls) = 1
    /\ Responded =>
          Len(fetchCalls) =
              IF /\ ~NoUsablePrompt(request)
                 /\ (IsCredential(CredentialOf(request)) \/ IsCredential(env))
              THEN 1
              ELSE 0

C18_Witness ==
    /\ Responded
    /\ upstream # None
    /\ upstream.kind = "resolved"
    /\ upstream.status = 429
    /\ response.status = 500
    /\ Len(fetchCalls) = 1

\* The field of an upstream entry is there and is a string that is not empty.
Present(entry, field) ==
    /\ entry.t = "object"
    /\ field \in DOMAIN entry
    /\ entry[field].t = "string"
    /\ entry[field] # Str("")

\* The string of a position of the truncated list, counted from 1.
PositionString(i) == <<"1", "2", "3">>[i]

\* C20: in a 200 answer made from an upstream list, the entry at position i
\* (from 1) has the upstream entry's id, refined and explanation where these
\* are there and not empty, and otherwise the string of i, the request's
\* prompt and "General improvement suggestion."; none of the three is empty.
C20_FieldDefaulting ==
    (Returned200 /\ ContentHasArray) =>
        \A i \in 1..Len(ReturnedList) :
            LET entry == UpstreamArray[i]
                given == ReturnedList[i]
            IN  /\ given.id = IF Present(entry, "id") THEN entry.id
                              ELSE Str(PositionString(i))
                /\ given.refined = IF Present(entry, "refined") THEN entry.refined
                                   ELSE PromptOf(request)
                /\ given.explanation =
                        IF Present(entry, "explanation") THEN entry.explanation
                        ELSE Str("General improvement suggestion.")
                /\ \A field \in {"id", "refined", "explanation"} :
                        given[field].t = "string" /\ given[field].s # ""

C20_Witness ==
    /\ Returned200
    /\ ContentHasArray
    /\ Len(UpstreamArray) = 4
    /\ UpstreamArray[3] = Entry(Undefined, Str(""), Num(7), Null)
    /\ PromptOf(request) = Str("a ")
    /\ ReturnedList[3].id = Str("3")
    /\ ReturnedList[3].refined = Str("a ")
    /\ ReturnedList[3].explanation = Str("General improvement suggestion.")

----------------------------------------------------------------------------
(* The claims about the component's visible state. *)

\* Some dispatched call has not settled yet.
Outstanding == \E i \in 1..Len(calls) : settled[i] = None

\* Call i settles with a failure in this step.
FailsNow(i) ==
    /\ settled[i] = None
    /\ settled'[i] # None
    /\ settled'[i].kind = "rejected"

\* A value that is a string with something in it.
NonEmptyString(v) == v.t = "string" /\ v # Str("")

\* C11, as stated: in no state of the component are a non-empty suggestion
\* list and a non-null error both shown.
C11_AsStated == ~(shown # <<>> /\ error # Null)

\* C15: when the debounce timer expires on a text that is empty or only
\* whitespace, no call is dispatched for it and the list shown becomes empty.
C15_BlankClearsWithoutCall ==
    [][(timerId /\ ~timerId' /\ Trim(input) = "")
            => (calls' = calls /\ settled' = settled /\ shown' = <<>>)]_vars

C15_Witness ==
    /\ ~timerId
    /\ input = " "
    /\ Len(calls) = 1
    /\ settled[1] # None
    /\ settled[1].kind = "fulfilled"
    /\ settled[1].list # <<>>
    /\ shown = <<>>

\* C16, as stated: a failed call shows the error payload's message when the
\* failure carries one and "An unexpected error occurred" otherwise; the list
\* shown is emptied, and no call is dispatched until the prompt changes.
C16_AsStated ==
    [][\A i \in 1..Len(calls) :
          FailsNow(i) =>
            /\ error' = IF NonEmptyString(settled'[i].payload)
                        THEN settled'[i].payload
                        ELSE Str("An unexpected error occurred")
            /\ shown' = <<>>
            /\ calls' = calls
            /\ timerId' = timerId]_vars

\* C16, amended: a failed call shows the error payload's message when the
\* failure is an axios error that carries one; for an axios error without one
\* it shows the error's own message, or "Failed to refine prompt" when that is
\* empty; for any other error it shows "An unexpected error occurred". The
\* list shown is emptied, and a call is dispatched only by the timer that a
\* change of the prompt has started.
C16_ErrorShown ==
    /\ [][\A i \in 1..Len(calls) :
            FailsNow(i) =>
              /\ error' = IF ~settled'[i].isAxiosError
                          THEN Str("An unexpected error occurred")
                          ELSE IF NonEmptyString(settled'[i].payload)
                          THEN settled'[i].payload
                          ELSE IF NonEmptyString(settled'[i].message)
                          THEN settled'[i].message
                          ELSE Str("Failed to refine prompt")
              /\ shown' = <<>>
              /\ calls' = calls
              /\ timerId' = timerId]_vars
    /\ [][calls' # calls => timerId]_vars
    /\ [][(~timerId /\ timerId') => input' # input]_vars

C16_Witness ==
    /\ Len(calls) = 1
    /\ settled[1] # None
    /\ settled[1].kind = "rejected"
    /\ settled[1].isAxiosError
    /\ settled[1].payload = Undefined
    /\ error = Str("Network Error")
    /\ shown = <<>>
    /\ ~timerId

\* C19, as stated: the loading indicator is set exactly in the states in
\* which some dispatched call has not settled.
C19_AsStated == isLoading = Outstanding


----------------------------------------------------------------------------
(* The claims about the key and session manager: Unconfigured is the setup *)
(* view, Ready the refinement view.                                        *)

\* sessionStorage holds nothing under any of the app's keys.
StorageEmpty == \A key \in StorageKeys : sessionStorage[key] = Null

\* C12: a credential that is set is written to session storage; a reload
\* keeps session storage and starts from fresh in-memory state; and the
\* inspection on start ends in Ready with the stored credential, the setup
\* form untouched, when one is stored, and in Unconfigured when none is.
C12_SessionRestore ==
    /\ [][(View = "ApiKeySetup" /\ View' = "PromptRefiner")
            => (appApiKey'.t = "string" /\ sessionStorage'[ApiKeyItem] = appApiKey')]_vars
    /\ [][appEvent' = "reload"
            => (sessionStorage' = sessionStorage /\ appApiKey' = Null /\ appIsLoading')]_vars
    /\ [][(appIsLoading /\ ~appIsLoading')
            => IF sessionStorage[ApiKeyItem] # Null
               THEN /\ View' = "PromptRefiner"
                    /\ appApiKey' = sessionStorage[ApiKeyItem]
                    /\ formApiKey' = "" /\ formError' = ""
                    /\ sessionStorage' = sessionStorage
               ELSE View' = "ApiKeySetup"]_vars

C12_Witness ==
    /\ appEvent = "effect"
    /\ View = "PromptRefiner"
    /\ appApiKey = Str("sk-a")
    /\ sessionStorage[ApiKeyItem] = Str("sk-a")

\* The text begins with the three characters sk-.
BeginsWithSk(text) == Len(text) >= 3 /\ SubSeq(text, 1, 3) = "sk-"

\* C13: a submit of a key that is empty or only whitespace, or that does not
\* begin with sk-, leaves the manager Unconfigured, writes nothing to session
\* storage and sets the message of that problem; the manager goes from
\* Unconfigured to Ready only by a submit of a non-empty key that begins with
\* sk-.
C13_InvalidSubmitRejected ==
    /\ [][(appEvent' = "submit" /\ Trim(formApiKey) = "")
            => /\ View' = "ApiKeySetup"
               /\ sessionStorage' = sessionStorage
               /\ formError' = "Please enter your OpenAI API key"]_vars
    /\ [][(appEvent' = "submit" /\ Trim(formApiKey) # ""
                /\ ~BeginsWithSk(formApiKey))
            => /\ View' = "ApiKeySetup"
               /\ sessionStorage' = sessionStorage
               /\ formError' = "OpenAI API keys start with \"sk-\""]_vars
    /\ [][(View = "ApiKeySetup" /\ View' = "PromptRefiner")
            => /\ appEvent' = "submit"
               /\ Trim(formApiKey) # ""
               /\ BeginsWithSk(formApiKey)]_vars

C13_Witness ==
    /\ appEvent = "submit"
    /\ View = "ApiKeySetup"
    /\ formApiKey = " sk-a"
    /\ formError = "OpenAI API keys start with \"sk-\""
    /\ StorageEmpty

\* C14: a reset in Ready leads to Unconfigured with session storage holding
\* neither a credential nor a model identifier and the model selection at its
\* default; the inspection of a reload after it ends in Unconfigured.
C14_ResetClears ==
    /\ [][appEvent' = "reset"
            => /\ View = "PromptRefiner"
               /\ View' = "ApiKeySetup"
               /\ StorageEmpty'
               /\ appVersion = 1 => selectedModel' = Str("gpt-4o-mini")]_vars
    /\ [][(appIsLoading /\ ~appIsLoading' /\ StorageEmpty) => View' = "ApiKeySetup"]_vars

C14_Witness ==
    /\ appEvent = "reset"
    /\ appVersion = 1
    /\ View = "ApiKeySetup"
    /\ StorageEmpty
    /\ selectedModel = Str("gpt-4o-mini")


----------------------------------------------------------------------------
(* Further claims about the endpoint's normalization and the component. *)

\* C21, as stated: for every upstream clarity behind a 200 answer, applying
\* the clarity normalization to the value it produced gives that value again.
C21_AsStated ==
    (Returned200 /\ ContentHasArray) =>
        \A i \in 1..Len(ReturnedList) :
            Clamp(Clamp(Get(UpstreamArray[i], "clarity")))
                = Clamp(Get(UpstreamArray[i], "clarity"))

\* C22, as stated: while the prompt is blank and the debounce timer has
\* expired on it, the list shown is empty, whatever calls settle meanwhile.
C22_AsStated ==
    (~timerId /\ Trim(input) = "") => shown = <<>>

\* C23: whenever an error is shown, the prompt is a text that is not blank
\* and the debounce timer is pending on it, then, unless the prompt changes
\* again, the timer expires, a call is dispatched with that text and the
\* error shown is cleared.
C23_ErrorNotTerminal ==
    \A text \in InputTexts :
        (/\ error # Null
         /\ timerId
         /\ input = text
         /\ Trim(text) # ""
         /\ Len(calls) < MaxCalls)
            ~> (\/ input # text
                \/ /\ ~timerId
                   /\ error = Null
                   /\ Len(calls) >= 1
                   /\ calls[Len(calls)].prompt = text)

C23_Witness ==
    /\ Len(calls) = 2
    /\ settled[1] # None
    /\ settled[1].kind = "rejected"
    /\ settled[2] = None
    /\ calls[2].prompt = input
    /\ ~timerId
    /\ error = Null

\* C24: a copy of a suggestion's text, at the click and when the clipboard
\* write settles, whether the clipboard takes the text or not, leaves the
\* prompt, the list shown, the loading indicator, the error, the debounce, the
\* calls and the stored credential as they were; after a failed copy the error
\* shown is what it was.
C24_CopyChangesNothingElse ==
    [][(writes' # writes \/ clipboard' # clipboard \/ consoleErrors' # consoleErrors)
         => /\ input' = input
            /\ shown' = shown
            /\ isLoading' = isLoading
            /\ error' = error
            /\ timerId' = timerId
            /\ calls' = calls
            /\ settled' = settled
            /\ sessionStorage' = sessionStorage
            /\ appApiKey' = appApiKey]_vars

C24_Witness ==
    /\ consoleErrors # {}
    /\ clipboard = "refined x"
    /\ writes = <<>>
    /\ shown = <<>>
    /\ error = Null

\* C25: once the inspection of session storage is over, the refinement view
\* is mounted exactly when session storage holds a credential, and with that
\* credential; the setup view exactly when it holds none; never both.
C25_ViewFollowsStorage ==
    ~appIsLoading =>
        /\ (View = "PromptRefiner") <=> (sessionStorage[ApiKeyItem] # Null)
        /\ (View = "ApiKeySetup") <=> (sessionStorage[ApiKeyItem] = Null)
        /\ View = "PromptRefiner" => appApiKey = sessionStorage[ApiKeyItem]

C25_Witness ==
    /\ appEvent = "submit"
    /\ View = "PromptRefiner"
    /\ appApiKey = Str("sk-b")
    /\ sessionStorage[ApiKeyItem] = Str("sk-b")

\* The invocation in progress has answered, and the one kept differs from it
\* in the credential only: same prompt, same upstream outcome.
DiffersInCredentialOnly ==
    /\ Responded
    /\ earlier.t = "invocation"
    /\ earlier.request.prompt = request.prompt
    /\ earlier.request.apiKey # request.apiKey
    /\ earlier.upstream = upstream

\* C26: two invocations that differ in the credential only give the same
\* response, status and body, and the same log records.
C26_CredentialNotExposed ==
    DiffersInCredentialOnly => (response = earlier.response /\ log = earlier.log)

C26_Witness ==
    /\ DiffersInCredentialOnly
    /\ earlier.request.apiKey = Str("sk-user")
    /\ request.apiKey = Str("sk-other")
    /\ upstream # None
    /\ upstream.status = 401
    /\ response.status = 500
    /\ log # <<>>

\* C27, as stated: the model identifier the app holds, in memory and under
\* openai-model in session storage, is the name of a model, never an absent
\* or undefined value.
C27_AsStated ==
    appVersion = 1 =>
        /\ selectedModel.t = "string"
        /\ selectedModel.s # "undefined"
        /\ sessionStorage[ModelItem] # Null => sessionStorage[ModelItem].s # "undefined"

\* C28: an invocation that has the request and the upstream outcome of an
\* earlier invocation gives that invocation's response, whatever was handled
\* in between; and no step changes the configured default key.
C28_Stateless ==
    /\ []((/\ Responded
           /\ earlier.t = "invocation"
           /\ earlier.request = request
           /\ earlier.upstream = upstream)
            => response = earlier.response)
    /\ [][env' = env]_vars

C28_Witness ==
    /\ Responded
    /\ earlier.t = "invocation"
    /\ earlier.request = request
    /\ earlier.upstream = upstream
    /\ request.apiKey = Undefined
    /\ env = Str("sk-env")
    /\ response.status = 200

====
